---- MODULE Spec2Model ----
(***************************************************************************)
(* ShardSplitRoute (mcrouter/routes/ShardSplitRoute.h): a route handle     *)
(* that steers gets to one shard split per host, broadcasts deletes to     *)
(* every split and passes everything else to the primary split.            *)
(*                                                                         *)
(* Requests run in fibers.  A fiber runs route() up to the call of the     *)
(* child's route(), where it may suspend until the child replies.  The     *)
(* calls of different requests interleave freely (requests run on several *)
(* proxy threads); a task added with addTask runs only after the fiber     *)
(* that added it has left its loop, as the fiber manager runs one fiber    *)
(* at a time and the loop does not suspend.                                *)
(***************************************************************************)
EXTENDS Integers, Sequences, FiniteSets, Bags, TLC

(* ---------------------------- bounds ----------------------------------- *)
\* largest offset handed to splitReq on its own
MaxOffset == 27
\* largest split count the directory hands out
MaxCnt == 3
\* host ids range over 0..MaxHostId
MaxHostId == 2

\* the request contexts of one behaviour
Reqs == {1, 2}
Cnts == 1..MaxCnt
HostIds == 0..MaxHostId
Replies == {"ok", "error"}
Kinds == {"get", "delete", "other"}
\* with a kind of request that is both get-like and delete-like
AllKinds == Kinds \cup {"getdelete"}

(* ----------------------------- keys ------------------------------------ *)
\* A request key: the bytes of fullKey() and the position at which
\* routingKey() starts in it (the bytes before are the routing prefix).
\* Key 1 is "s:s:x": the shard id "s" also occurs as the key's prefix.
\* Key 2 is "/p:s:s" with routing prefix "/": the shard id also occurs
\* after the shard region.
Keys ==
  { [full |-> <<"s", ":", "s", ":", "x">>, rstart |-> 1],
    [full |-> <<"/", "p", ":", "s", ":", "s">>, rstart |-> 2] }

Alphabet ==
  <<"a", "b", "c", "d", "e", "f", "g", "h", "i", "j", "k", "l", "m",
    "n", "o", "p", "q", "r", "s", "t", "u", "v", "w", "x", "y", "z">>

\* mutant: the suffix is one letter, whatever the offset
shardSplitSuffix_OneLetter(offset) ==
  <<Alphabet[(offset % Len(Alphabet)) + 1]>>

\* shardSplitSuffix(offset): positional encoding of the offset over the
\* letters, least significant digit first, no delimiter characters.
RECURSIVE shardSplitSuffix(_)
shardSplitSuffix(offset) ==
  IF offset < Len(Alphabet)
    THEN <<Alphabet[offset + 1]>>
    ELSE <<Alphabet[(offset % Len(Alphabet)) + 1]>>
           \o shardSplitSuffix(offset \div Len(Alphabet))

\* A shard region is a view into the key's buffer: the position of its
\* first byte and its length.
ShardEnd(shard) == shard.start + shard.len - 1

\* createSplitKey(fullKey, offset, shard): the bytes of fullKey up to the
\* end of the shard region, the split suffix, the remaining bytes.
createSplitKey(fullKey, offset, shard) ==
  SubSeq(fullKey, 1, ShardEnd(shard))
    \o shardSplitSuffix(offset)
    \o SubSeq(fullKey, ShardEnd(shard) + 1, Len(fullKey))

\* positions of ':' in the key at or after position from
ColonsFrom(full, from) == {p \in from..Len(full) : full[p] = ":"}

Min(S) == CHOOSE x \in S : \A y \in S : x <= y

\* The directory's view of the shard id of a routing key: the bytes between
\* the first and the second ':' of the routing key.
ShardRegion(key) ==
  LET c1 == Min(ColonsFrom(key.full, key.rstart))
      c2 == Min(ColonsFrom(key.full, c1 + 1))
  IN  [start |-> c1 + 1, len |-> c2 - c1 - 1]

(* ----------------------------- state ----------------------------------- *)
VARIABLES
  hostid,     \* globals::hostid(), fixed for the process
  dirCnt,     \* the directory's current split count of the shard
  pc,         \* per context: where it is in route()/traverse()
  req,        \* per context: the caller's request [kind, key]
  op,         \* per context: "route" or "traverse"
  cnt,        \* per context: local cnt of the running call
  shard,      \* per context: local shard of the running call
  idx,        \* per context: loop variable i of the delete loop
  lookups,    \* per context: calls of getShardSplitCnt
  splits,     \* per context: calls of createSplitKey (through splitReq)
  calls,      \* per context: bag of the child route() calls made for it
  visits,     \* per context: visitor calls made for the request
  tasks,      \* fiber tasks added with addTask
  got,        \* per context: the child's reply to the call route() awaited
  reply,      \* per context: what route() returned to the caller
  ctx,        \* per context: the shared request context
  rh_,        \* the node's child route handle
  shardSplitter_,  \* the node's directory handle
  derived     \* per context: what a call of splitReq on its own returned

vars ==
  <<hostid, dirCnt, pc, req, op, cnt, shard, idx, lookups, splits, calls,
    visits, tasks, got, reply, ctx, rh_, shardSplitter_, derived>>

NoReq == [kind |-> "none", key |-> <<>>]
NoShard == [start |-> 0, len |-> 0]

Init ==
  /\ hostid \in HostIds
  /\ dirCnt \in Cnts
  /\ pc = [r \in Reqs |-> "idle"]
  /\ req = [r \in Reqs |-> NoReq]
  /\ op = [r \in Reqs |-> "none"]
  /\ cnt = [r \in Reqs |-> 0]
  /\ shard = [r \in Reqs |-> NoShard]
  /\ idx = [r \in Reqs |-> 0]
  /\ lookups = [r \in Reqs |-> 0]
  /\ splits = [r \in Reqs |-> 0]
  /\ calls = [r \in Reqs |-> EmptyBag]
  /\ visits = [r \in Reqs |-> <<>>]
  /\ tasks = {}
  /\ got = [r \in Reqs |-> "none"]
  /\ reply = [r \in Reqs |-> "none"]
  /\ ctx = [r \in Reqs |-> "absent"]
  /\ rh_ = "child"
  /\ shardSplitter_ = "splitter"
  /\ derived = [r \in Reqs |-> NoReq]

(* --------------------------- helpers ----------------------------------- *)
GetLike(kind) == kind \in {"get", "getdelete"}
DeleteLike(kind) == kind \in {"delete", "getdelete"}

\* ShardSplitter::getShardSplitCnt(routingKey, shard): the split count of
\* the key's shard and, through the out-parameter, the shard region.
getShardSplitCnt(key) == [cnt |-> dirCnt, shard |-> ShardRegion(key)]

\* mutant: the count found by an earlier request is kept and used again
LookUp_Cached(key) ==
  IF \E q \in Reqs : lookups[q] > 0
    THEN [cnt |-> cnt[CHOOSE q \in Reqs : lookups[q] > 0],
          shard |-> ShardRegion(key)]
    ELSE getShardSplitCnt(key)

\* auto cnt = shardSplitter_.getShardSplitCnt(req.key().routingKey(), shard):
\* the lookup a call of route() or traverse() makes, kept in its locals
LookUp(key) == getShardSplitCnt(key)

\* mutant: the shard is looked for in the key by its bytes, and the first
\* place that holds them is taken for the shard region
splitReq_ByContent(request, offset, sh) ==
  LET full == request.key.full
      id == SubSeq(full, sh.start, ShardEnd(sh))
      at == Min({p \in 1..(Len(full) - sh.len + 1) :
                   SubSeq(full, p, p + sh.len - 1) = id})
  IN  [request EXCEPT
         !.key.full = createSplitKey(full, offset, [start |-> at, len |-> sh.len])]

\* splitReq(req, offset, shard): a clone of req whose key is the split key.
splitReq(request, offset, sh) ==
  [request EXCEPT !.key.full = createSplitKey(request.key.full, offset, sh)]

\* mutant: splitReq() sets the split key in the request it was given
CallerReq_InPlace(request, reqCopy) == reqCopy

\* the request of the caller after splitReq(req, ...) has made reqCopy:
\* req is a const reference and the key is set in the clone
CallerReq(request, reqCopy) == request

\* size_t i = globals::hostid() % cnt, in route() for gets
RoutePick(h, c) == h % c

\* size_t arithmetic. A size_t value below 2^63 is the integer itself and a
\* value v from 2^63 on is the negative integer v - 2^64, so that SIZE_MAX
\* is -1: a subtraction that wraps below zero gives a negative integer.
SizeSub(a, b) == a - b

\* a < b on size_t values
SizeLess(a, b) == IF (a < 0) = (b < 0) THEN a < b ELSE b < 0

\* mutant: traverse() picks the next split
TraversePick_Shifted(h, c) == (h + 1) % c

\* size_t i = globals::hostid() % cnt, in traverse()
TraversePick(h, c) == h % c

\* mutant: the picked index is used as the offset, without the shift by one
GetForward_NoShift(request, h, c, sh) ==
  LET i == RoutePick(h, c)
  IN  IF i = 0 THEN <<request>> ELSE <<splitReq(request, i, sh)>>

\* the requests route() hands to the child for a get: one
GetForward(request, h, c, sh) ==
  LET i == RoutePick(h, c)
  IN  IF i = 0 THEN <<request>>
               ELSE <<splitReq(request, SizeSub(i, 1), sh)>>

\* mutant: the loop index is taken for the split number, not the offset
DeleteForward_Shifted(request, i, sh) == splitReq(request, i + 1, sh)

\* the request a secondary delete task carries for loop index i
DeleteForward(request, i, sh) == splitReq(request, i, sh)

\* mutant: the loop runs once more
MoreSplits_Inclusive(i, c) == i <= c - 1

\* mutant: the loop stops one split early
MoreSplits_Short(i, c) == i < c - 2

\* mutant: the loop condition is written i <= cnt - 2
MoreSplits_UpToCntMinusTwo(i, c) ==
  LET last == SizeSub(c, 2) IN i = last \/ SizeLess(i, last)

\* the loop condition i < cnt - 1 of the delete loop of route()
MoreSplits(i, c) == SizeLess(i, SizeSub(c, 1))

\* mutant: the loop of traverse() stops one split early
MoreVisits_Short(i, c) == i < c - 2

\* the loop condition i < cnt - 1 of the delete loop of traverse()
MoreVisits(i, c) == SizeLess(i, SizeSub(c, 1))

\* the visitor calls of the delete loop of traverse(), from index i on
RECURSIVE TraverseSplits(_, _, _, _)
TraverseSplits(request, i, c, sh) ==
  IF MoreVisits(i, c)
    THEN <<splitReq(request, i, sh)>> \o TraverseSplits(request, i + 1, c, sh)
    ELSE <<>>

\* mutant: traverse() asks first whether the request is delete-like
TraverseVisits_DeleteFirst(request, h, c, sh) ==
  IF c = 1
    THEN <<request>>
    ELSE IF DeleteLike(request.kind)
      THEN <<request>> \o TraverseSplits(request, 0, c, sh)
      ELSE LET i == TraversePick(h, c)
           IN  IF i = 0 THEN <<request>>
                        ELSE <<splitReq(request, i - 1, sh)>>

\* the requests traverse() shows the visitor once it has cnt and shard
TraverseVisits(request, h, c, sh) ==
  IF c = 1
    THEN <<request>>
    ELSE IF GetLike(request.kind)
      THEN LET i == TraversePick(h, c)
           IN  IF i = 0 THEN <<request>>
                        ELSE <<splitReq(request, SizeSub(i, 1), sh)>>
      ELSE <<request>> \o TraverseSplits(request, 0, c, sh)

\* mutant: a failure of the child is reported as a success
RouteReturn_MaskError(childReply) ==
  IF childReply = "error" THEN "ok" ELSE childReply

\* what route() returns, given the reply of the child call it awaited
RouteReturn(childReply) == childReply

\* a call of the child's route() with a request
Call(request, by) == [key |-> request.key.full, to |-> rh_, by |-> by]

\* a call of the visitor with the child and a request
Visit(request) == [key |-> request.key.full, to |-> rh_]

\* the calls of createSplitKey behind a sequence of derived requests
SplitCalls(request, rs) == Cardinality({n \in 1..Len(rs) : rs[n] # request})

(* --------------------------- operations -------------------------------- *)
\* The directory is reloaded: the shard's split count changes.
Reload(c) ==
  /\ c # dirCnt
  /\ dirCnt' = c
  /\ UNCHANGED <<hostid, pc, req, op, cnt, shard, idx, lookups, splits, calls,
                 visits, tasks, got, reply, ctx, rh_, shardSplitter_, derived>>

\* route(req, GetLikeT), the overload of every get-like request: lookup,
\* pick the split, call the child.
RouteGet(r, kind, k) ==
  /\ pc[r] = "idle"
  /\ GetLike(kind)
  /\ LET request == [kind |-> kind, key |-> k]
         d == LookUp(k)
         fw == GetForward(request, hostid, d.cnt, d.shard)
     IN  /\ req' = [req EXCEPT ![r] = CallerReq(request, fw[1])]
         /\ cnt' = [cnt EXCEPT ![r] = d.cnt]
         /\ shard' = [shard EXCEPT ![r] = d.shard]
         /\ splits' = [splits EXCEPT ![r] = @ + SplitCalls(request, fw)]
         /\ calls' = [calls EXCEPT ![r] =
                        @ (+) SetToBag({Call(fw[n], "route") : n \in 1..Len(fw)})]
  /\ op' = [op EXCEPT ![r] = "route"]
  /\ lookups' = [lookups EXCEPT ![r] = @ + 1]
  /\ pc' = [pc EXCEPT ![r] = "awaiting"]
  /\ UNCHANGED <<hostid, dirCnt, idx, visits, tasks, got, reply, ctx, rh_,
                 shardSplitter_, derived>>

\* mutant: every request that is no get is looked up and broadcast
RouteLookups_Always(kind) == 1

\* the directory lookups route() makes for a request that is no get
RouteLookups(kind) == IF DeleteLike(kind) THEN 1 ELSE 0

\* route(req, OtherThanT<GetLike>): a request that is no delete goes
\* straight to the child; a delete does the lookup and enters the loop.
RouteNonGet(r, kind, k) ==
  /\ pc[r] = "idle"
  /\ ~GetLike(kind)
  /\ LET request == [kind |-> kind, key |-> k]
         d == LookUp(k)
     IN  /\ req' = [req EXCEPT ![r] = request]
         /\ op' = [op EXCEPT ![r] = "route"]
         /\ IF RouteLookups(kind) = 0
              THEN /\ calls' = [calls EXCEPT ![r] =
                                  @ (+) SetToBag({Call(request, "route")})]
                   /\ pc' = [pc EXCEPT ![r] = "awaiting"]
                   /\ UNCHANGED <<cnt, shard, lookups, idx>>
              ELSE /\ cnt' = [cnt EXCEPT ![r] = d.cnt]
                   /\ shard' = [shard EXCEPT ![r] = d.shard]
                   /\ lookups' = [lookups EXCEPT ![r] = @ + RouteLookups(kind)]
                   /\ idx' = [idx EXCEPT ![r] = 0]
                   /\ pc' = [pc EXCEPT ![r] = "loop"]
                   /\ UNCHANGED calls
  /\ UNCHANGED <<hostid, dirCnt, splits, visits, tasks, got, reply, ctx, rh_,
                 shardSplitter_, derived>>

\* one turn of the delete loop: addTask of a forward of the i-th split
AddTask(r) ==
  /\ pc[r] = "loop"
  /\ MoreSplits(idx[r], cnt[r])
  /\ tasks' = tasks \cup
       {[req |-> r, off |-> idx[r], to |-> rh_, st |-> "queued",
         key |-> DeleteForward(req[r], idx[r], shard[r]).key.full]}
  /\ req' = [req EXCEPT ![r] =
               CallerReq(@, DeleteForward(@, idx[r], shard[r]))]
  /\ splits' = [splits EXCEPT ![r] = @ + 1]
  /\ idx' = [idx EXCEPT ![r] = @ + 1]
  /\ UNCHANGED <<hostid, dirCnt, pc, op, cnt, shard, lookups, calls,
                 visits, got, reply, ctx, rh_, shardSplitter_, derived>>

\* mutant: the child is called with the request before the loop has
\* added all the tasks
RoutePrimary_Early(r) ==
  /\ pc[r] = "loop"
  /\ calls' = [calls EXCEPT ![r] = @ (+) SetToBag({Call(req[r], "route")})]
  /\ pc' = [pc EXCEPT ![r] = "awaiting"]
  /\ UNCHANGED <<hostid, dirCnt, req, op, cnt, shard, idx, lookups, splits,
                 visits, tasks, got, reply, ctx, rh_, shardSplitter_, derived>>

\* after the loop: return rh_->route(req), the call of the child
RoutePrimary(r) ==
  /\ pc[r] = "loop"
  /\ ~MoreSplits(idx[r], cnt[r])
  /\ calls' = [calls EXCEPT ![r] = @ (+) SetToBag({Call(req[r], "route")})]
  /\ pc' = [pc EXCEPT ![r] = "awaiting"]
  /\ UNCHANGED <<hostid, dirCnt, req, op, cnt, shard, idx, lookups, splits,
                 visits, tasks, got, reply, ctx, rh_, shardSplitter_, derived>>

\* mutant: the tasks are kept in one list of the route, which the return
\* of any route() call clears
TasksAtReturn_ClearShared(r) == {t \in tasks : t.st # "queued"}

\* mutant: the tasks of a request that have not run are dropped when
\* route() returns
TasksAtReturn_Cancel(r) == {t \in tasks : t.req # r \/ t.st # "queued"}

\* the added tasks when route() of r returns: addTask() has handed them to
\* the fiber manager, with their own request and child handle; all stay
TasksAtReturn(r) == tasks

\* the child replies to the call route() awaits; route() returns
ChildReply(r, v) ==
  /\ pc[r] = "awaiting"
  /\ got' = [got EXCEPT ![r] = v]
  /\ reply' = [reply EXCEPT ![r] = RouteReturn(v)]
  /\ pc' = [pc EXCEPT ![r] = "done"]
  /\ tasks' = TasksAtReturn(r)
  /\ UNCHANGED <<hostid, dirCnt, req, op, cnt, shard, idx, lookups, splits,
                 calls, visits, ctx, rh_, shardSplitter_, derived>>

\* the child calls the lambda of a task makes when it runs: r->route(req_)
TaskCalls(t) == SetToBag({[key |-> t.key, to |-> t.to, by |-> "task"]})

\* the scheduler runs an added task, once the fiber that added it has left
\* the loop
RunTask(t) ==
  /\ t \in tasks
  /\ t.st = "queued"
  /\ pc[t.req] # "loop"
  /\ tasks' = (tasks \ {t}) \cup {[t EXCEPT !.st = "running"]}
  /\ calls' = [calls EXCEPT ![t.req] = @ (+) TaskCalls(t)]
  /\ UNCHANGED <<hostid, dirCnt, pc, req, op, cnt, shard, idx, lookups, splits,
                 visits, got, reply, ctx, rh_, shardSplitter_, derived>>

\* mutant: a task whose child call failed is queued again
TaskEnd_Retry(t, v) ==
  IF v = "error" THEN [t EXCEPT !.st = "queued"] ELSE [t EXCEPT !.st = "ended"]

\* what a task does with the reply v of its child call: nothing; it ends
TaskEnd(t, v) == [t EXCEPT !.st = "ended"]

\* the child call of a task ends with reply v
TaskReply(t, v) ==
  /\ t \in tasks
  /\ t.st = "running"
  /\ tasks' = (tasks \ {t}) \cup {TaskEnd(t, v)}
  /\ UNCHANGED <<hostid, dirCnt, pc, req, op, cnt, shard, idx, lookups, splits,
                 calls, visits, got, reply, ctx, rh_, shardSplitter_, derived>>

\* the directory lookups traverse() makes for a request of this kind
TraverseLookups(kind) == IF GetLike(kind) \/ DeleteLike(kind) THEN 1 ELSE 0

\* mutant: the directory is not recorded
RecordSplitter_Skip(c) == c

\* ctx->recordShardSplitter(shardSplitter_) if there is a context
RecordSplitter(c) == IF c = "present" THEN shardSplitter_ ELSE c

\* mutant: traverse() routes the request to the child
TraverseCalls_Routes(request) == SetToBag({Call(request, "route")})

\* the child route() calls traverse() makes: none
TraverseCalls(request) == EmptyBag

\* the tasks traverse() adds: none
TraverseTasks(r) == {}

\* traverse(req, t): runs to its end without suspending
Traverse(r, kind, k, c) ==
  /\ pc[r] = "idle"
  /\ LET request == [kind |-> kind, key |-> k]
         d == LookUp(k)
         vs == IF TraverseLookups(kind) = 0
                 THEN <<request>>
                 ELSE TraverseVisits(request, hostid, d.cnt, d.shard)
     IN  /\ req' = [req EXCEPT ![r] = CallerReq(request, vs[Len(vs)])]
         /\ ctx' = [ctx EXCEPT ![r] = RecordSplitter(c)]
         /\ lookups' = [lookups EXCEPT ![r] = @ + TraverseLookups(kind)]
         /\ cnt' = [cnt EXCEPT ![r] =
                      IF TraverseLookups(kind) = 0 THEN @ ELSE d.cnt]
         /\ shard' = [shard EXCEPT ![r] =
                        IF TraverseLookups(kind) = 0 THEN @ ELSE d.shard]
         /\ visits' = [visits EXCEPT ![r] =
                         [n \in 1..Len(vs) |-> Visit(vs[n])]]
         /\ splits' = [splits EXCEPT ![r] = @ + SplitCalls(request, vs)]
         /\ calls' = [calls EXCEPT ![r] = @ (+) TraverseCalls(request)]
  /\ tasks' = tasks \cup TraverseTasks(r)
  /\ op' = [op EXCEPT ![r] = "traverse"]
  /\ pc' = [pc EXCEPT ![r] = "done"]
  /\ UNCHANGED <<hostid, dirCnt, idx, got, reply, rh_, shardSplitter_, derived>>

\* the steps of context r and of the tasks it added
Step(r) ==
  \/ \E kind \in Kinds, k \in Keys : RouteGet(r, kind, k)
  \/ \E kind \in Kinds, k \in Keys : RouteNonGet(r, kind, k)
  \/ AddTask(r)
  \/ RoutePrimary(r)
  \/ \E v \in Replies : ChildReply(r, v)
  \/ \E t \in tasks : t.req = r /\ RunTask(t)
  \/ \E t \in tasks, v \in Replies : t.req = r /\ TaskReply(t, v)
  \/ \E kind \in Kinds, k \in Keys, c \in {"present", "absent"} :
       Traverse(r, kind, k, c)

Next ==
  \/ \E c \in Cnts : Reload(c)
  \/ \E r \in Reqs : Step(r)

Spec == Init /\ [][Next]_vars


\* what the fiber manager can run without anything arriving from outside:
\* the next turn of a loop, the call after the loop, an added task
Runnable ==
  \E r \in Reqs :
    \/ AddTask(r)
    \/ RoutePrimary(r)
    \/ \E t \in tasks : t.req = r /\ RunTask(t)

\* One request that route() does not hand to its get overload, with the
\* tasks it adds, while the directory is reloaded at will: the behaviours
\* of one broadcast.
BroadcastReqs == {1}

BroadcastNext ==
  \/ \E c \in Cnts : Reload(c)
  \/ \E r \in BroadcastReqs, kind \in Kinds, k \in Keys : RouteNonGet(r, kind, k)
  \/ \E r \in BroadcastReqs : AddTask(r)
  \/ \E r \in BroadcastReqs : RoutePrimary(r)
  \/ \E r \in BroadcastReqs, v \in Replies : ChildReply(r, v)
  \/ \E t \in tasks : RunTask(t)
  \/ \E t \in tasks, v \in Replies : TaskReply(t, v)

\* The scheduler does not stop while something can run.  Nothing makes the
\* child reply, and nothing makes a request arrive.
FairSpec == Init /\ [][BroadcastNext]_vars /\ WF_vars(Runnable)

\* One request of any kind, one that is both get-like and delete-like
\* included, in route() or traverse(), with the tasks it adds.
ClassReqs == {1}

ClassNext ==
  \/ \E c \in Cnts : Reload(c)
  \/ \E r \in ClassReqs, kind \in AllKinds, k \in Keys : RouteGet(r, kind, k)
  \/ \E r \in ClassReqs, kind \in AllKinds, k \in Keys : RouteNonGet(r, kind, k)
  \/ \E r \in ClassReqs : AddTask(r)
  \/ \E r \in ClassReqs : RoutePrimary(r)
  \/ \E r \in ClassReqs, v \in Replies : ChildReply(r, v)
  \/ \E t \in tasks : RunTask(t)
  \/ \E t \in tasks, v \in Replies : TaskReply(t, v)
  \/ \E r \in ClassReqs, kind \in AllKinds, k \in Keys,
        c \in {"present", "absent"} : Traverse(r, kind, k, c)

ClassSpec == Init /\ [][ClassNext]_vars

\* splitReq(req, offset, shard) on its own, for a request whose shard the
\* directory has located: the key codec at work on any offset.
SplitReqCall(r, k, o) ==
  /\ pc[r] = "idle"
  /\ LET request == [kind |-> "delete", key |-> k]
         d == getShardSplitCnt(k)
     IN  /\ req' = [req EXCEPT ![r] = request]
         /\ cnt' = [cnt EXCEPT ![r] = d.cnt]
         /\ shard' = [shard EXCEPT ![r] = d.shard]
         /\ derived' = [derived EXCEPT ![r] = splitReq(request, o, d.shard)]
  /\ op' = [op EXCEPT ![r] = "splitReq"]
  /\ idx' = [idx EXCEPT ![r] = o]
  /\ lookups' = [lookups EXCEPT ![r] = @ + 1]
  /\ splits' = [splits EXCEPT ![r] = @ + 1]
  /\ pc' = [pc EXCEPT ![r] = "done"]
  /\ UNCHANGED <<hostid, dirCnt, calls, visits, tasks, got, reply, ctx, rh_,
                 shardSplitter_>>

KeyNext == \E r \in Reqs, k \in Keys, o \in 0..MaxOffset : SplitReqCall(r, k, o)

\* the key codec on inputs from bounded sets
KeySpec == Init /\ [][KeyNext]_vars

(* ---------------------- vocabulary of the claims ----------------------- *)
Routed(r, kind) == op[r] = "route" /\ req[r].kind = kind
Traversed(r, kind) == op[r] = "traverse" /\ req[r].kind = kind
FullKey(r) == req[r].key.full
TasksOf(r) == {t \in tasks : t.req = r}
CallKeys(r, by) == {c.key : c \in {d \in BagToSet(calls[r]) : d.by = by}}
AllCallKeys(r) == {c.key : c \in BagToSet(calls[r])}
VisitKeys(r) == {visits[r][n].key : n \in 1..Len(visits[r])}
\* the key createSplitKey gives for offset i of the request of r, with the
\* shard region the directory reports for its key
SplitKeyOf(r, i) == createSplitKey(FullKey(r), i, ShardRegion(req[r].key))
SecondaryKeys(r) == {SplitKeyOf(r, i) : i \in 0..(cnt[r] - 2)}
\* route() has reached the call of the child
Forwarded(r) == pc[r] \in {"awaiting", "done"}
\* the delete of r has made its primary call and all its secondary calls
BroadcastIssued(r) ==
  Forwarded(r) /\ \A t \in TasksOf(r) : t.st # "queued"

(* ------------------------------ claims --------------------------------- *)
\* the calls made so far for the delete of r are calls of the broadcast:
\* the primary call with the unmodified key, made by route() itself, and
\* one call per task that has run, with the split key of the task's offset
BroadcastSoFar(r) ==
  /\ \A c \in BagToSet(calls[r]) : c.to = rh_ /\ CopiesIn(c, calls[r]) = 1
  /\ CallKeys(r, "route") = IF Forwarded(r) THEN {FullKey(r)} ELSE {}
  /\ CallKeys(r, "task") = {t.key : t \in {u \in TasksOf(r) : u.st # "queued"}}
  /\ \A t \in TasksOf(r) : t.key = SplitKeyOf(r, t.off) /\ t.to = rh_
  /\ Forwarded(r) =>
       /\ {t.off : t \in TasksOf(r)} = 0..(cnt[r] - 2)
       /\ Cardinality(TasksOf(r)) = cnt[r] - 1
  /\ BroadcastIssued(r) =>
       /\ BagCardinality(calls[r]) = cnt[r]
       /\ AllCallKeys(r) = {FullKey(r)} \cup SecondaryKeys(r)
       /\ Cardinality(AllCallKeys(r)) = cnt[r]

\* C1: a delete with cnt = N > 1 causes exactly one child call with the
\* unmodified key, made by route() itself, and exactly N-1 more child calls,
\* one per i in 0..N-2 with key createSplitKey(fullKey, i, shard), all to the
\* same child and no other call; under a fair scheduler every one of the N-1
\* calls is made in the end, in whatever order.
C1_DeleteBroadcast ==
  /\ [](\A r \in Reqs : Routed(r, "delete") /\ cnt[r] > 1 => BroadcastSoFar(r))
  /\ \A r \in Reqs :
       (Routed(r, "delete") /\ cnt[r] > 1)
         ~> (BroadcastIssued(r) /\ BagCardinality(calls[r]) = cnt[r])

C1_Witness ==
  \E r \in Reqs :
    /\ Routed(r, "delete") /\ cnt[r] = MaxCnt
    /\ BroadcastIssued(r) /\ pc[r] = "awaiting"
    /\ AllCallKeys(r) = {FullKey(r)} \cup {SplitKeyOf(r, i) : i \in 0..(MaxCnt - 2)}

\* C2: a get with cnt = N > 1 makes exactly one child call and adds no task;
\* the key forwarded is the original key when hostid mod N = 0 and
\* createSplitKey(fullKey, (hostid mod N) - 1, shard) otherwise.
C2_GetOneSplit ==
  \A r \in Reqs :
    Routed(r, "get") /\ cnt[r] > 1 =>
      /\ BagCardinality(calls[r]) = 1
      /\ TasksOf(r) = {}
      /\ AllCallKeys(r) =
           {IF hostid % cnt[r] = 0
              THEN FullKey(r)
              ELSE SplitKeyOf(r, (hostid % cnt[r]) - 1)}
      /\ \A c \in BagToSet(calls[r]) : c.to = rh_ /\ c.by = "route"

C2_Witness ==
  \E r \in Reqs :
    /\ Routed(r, "get") /\ cnt[r] = 3 /\ hostid % cnt[r] = 2
    /\ pc[r] = "done"
    /\ AllCallKeys(r) = {SplitKeyOf(r, 1)}
    /\ FullKey(r) \notin AllCallKeys(r)

\* C3: a request that is neither get nor delete gets exactly one child call
\* with the unmodified request, no directory lookup, no key rewriting and no
\* task, whatever the split count of the shard.
C3_OtherPassThrough ==
  \A r \in Reqs :
    Routed(r, "other") =>
      /\ calls[r] = SetToBag({[key |-> FullKey(r), to |-> rh_, by |-> "route"]})
      /\ lookups[r] = 0
      /\ splits[r] = 0
      /\ TasksOf(r) = {}
      /\ cnt[r] = 0
      /\ Forwarded(r)

C3_Witness ==
  \E r \in Reqs :
    /\ Routed(r, "other") /\ pc[r] = "done" /\ dirCnt = 3
    /\ BagCardinality(calls[r]) = 1

\* C5: the reply route() returns for a delete with cnt > 1 is the reply of
\* the child call made with the unmodified key, whatever the state of the
\* secondary forwards: the child's reply to the primary call can be taken
\* in every state of theirs.  When the child call of a secondary forward
\* ends, with whatever reply, the forward has ended for good: no other call
\* is started (no retry) and neither the caller's reply nor the progress of
\* route() changes.
C5_DeleteReplyIsPrimary ==
  /\ [](\A r \in Reqs :
          Routed(r, "delete") /\ cnt[r] > 1 =>
            /\ pc[r] = "done" => reply[r] = got[r] /\ got[r] \in Replies
            /\ pc[r] # "done" => reply[r] = "none"
            /\ pc[r] = "awaiting" =>
                 \A v \in Replies : ENABLED ChildReply(r, v)
            /\ \A t \in TasksOf(r) :
                 CopiesIn([key |-> t.key, to |-> t.to, by |-> "task"], calls[r])
                   = IF t.st = "queued" THEN 0 ELSE 1)
  /\ [][\A t \in tasks :
          t.st = "running" /\ t \notin tasks' =>
            /\ [t EXCEPT !.st = "ended"] \in tasks'
            /\ reply' = reply /\ got' = got /\ pc' = pc /\ calls' = calls]_vars

C5_Witness ==
  \E r \in Reqs :
    /\ Routed(r, "delete") /\ cnt[r] = 3
    /\ pc[r] = "done" /\ got[r] = "error" /\ reply[r] = "error"
    /\ \E t, u \in TasksOf(r) : t.st = "ended" /\ u.st = "queued"

\* C6: when the directory returns cnt = 1, route() makes exactly one child
\* call, with the unmodified request, and returns its reply; createSplitKey
\* is not called and no task is added.  A request that is neither get nor
\* delete behaves so with any count held by the directory.
C6_CountOnePassThrough ==
  \A r \in Reqs :
    op[r] = "route" /\ (cnt[r] = 1 \/ req[r].kind = "other") =>
      /\ splits[r] = 0
      /\ TasksOf(r) = {}
      /\ Forwarded(r) =>
           calls[r] = SetToBag({[key |-> FullKey(r), to |-> rh_, by |-> "route"]})
      /\ ~Forwarded(r) => calls[r] = EmptyBag
      /\ pc[r] = "done" => reply[r] = got[r] /\ reply[r] \in Replies

C6_Witness ==
  \E r1, r2 \in Reqs :
    /\ Routed(r1, "get") /\ Routed(r2, "delete")
    /\ cnt[r1] = 1 /\ cnt[r2] = 1 /\ hostid > 0
    /\ pc[r1] = "done" /\ pc[r2] = "done"
    /\ reply[r1] = "ok" /\ reply[r2] = "error"

\* C7: the reply route() returns for a get is the reply of the one child
\* call made for the chosen split, also when that reply is a failure: no
\* second call is made and the reply is not translated.
C7_GetReplyIsChildReply ==
  \A r \in Reqs :
    Routed(r, "get") =>
      /\ BagCardinality(calls[r]) = 1
      /\ pc[r] = "awaiting" => reply[r] = "none"
      /\ pc[r] = "done" => reply[r] = got[r] /\ got[r] \in Replies

C7_Witness ==
  \E r \in Reqs :
    /\ Routed(r, "get") /\ cnt[r] > 1 /\ hostid % cnt[r] # 0
    /\ pc[r] = "done" /\ got[r] = "error" /\ reply[r] = "error"
    /\ AllCallKeys(r) = {SplitKeyOf(r, (hostid % cnt[r]) - 1)}

\* C4: the key a get is forwarded with, for any host id and any count N, is
\* one of the keys a delete of the same key with the same count N is
\* forwarded with: once the primary call and all secondary calls of the
\* delete are issued, the key the get reads under has received the delete.
C4_DeleteCoversGet ==
  \A g, d \in Reqs :
    /\ Routed(g, "get") /\ Routed(d, "delete")
    /\ req[g].key = req[d].key /\ cnt[g] = cnt[d]
    /\ BroadcastIssued(d)
    => AllCallKeys(g) # {} /\ AllCallKeys(g) \subseteq AllCallKeys(d)

C4_Witness ==
  \E g, d \in Reqs :
    /\ Routed(g, "get") /\ Routed(d, "delete")
    /\ req[g].key = req[d].key /\ cnt[g] = cnt[d] /\ cnt[g] = MaxCnt
    /\ hostid % cnt[g] = cnt[g] - 1
    /\ BroadcastIssued(d)
    /\ FullKey(g) \notin AllCallKeys(g)

\* C8: traverse() of a delete with cnt = N calls the visitor on the child
\* exactly N times, and the keys visited are the keys of the child calls of
\* the broadcast route() makes for the same request and N: the unmodified
\* key and createSplitKey(fullKey, i, shard) for i in 0..N-2.
C8_TraverseDeleteMirrorsRoute ==
  \A r \in Reqs :
    Traversed(r, "delete") =>
      /\ Len(visits[r]) = cnt[r]
      /\ Cardinality(VisitKeys(r)) = cnt[r]
      /\ \A n \in 1..Len(visits[r]) : visits[r][n].to = rh_
      /\ VisitKeys(r) = {FullKey(r)} \cup SecondaryKeys(r)
      /\ \A d \in Reqs :
           /\ Routed(d, "delete") /\ req[d].key = req[r].key
           /\ cnt[d] = cnt[r] /\ BroadcastIssued(d)
           => AllCallKeys(d) = VisitKeys(r)

C8_Witness ==
  \E r, d \in Reqs :
    /\ Traversed(r, "delete") /\ Routed(d, "delete")
    /\ req[d].key = req[r].key /\ cnt[d] = cnt[r] /\ cnt[r] = MaxCnt
    /\ BroadcastIssued(d)
    /\ Len(visits[r]) = MaxCnt

\* C9: traverse() of a get calls the visitor exactly once, for any host id
\* and any cnt, and the key visited is the key of the one request route()
\* forwards for the same request, host id and cnt.
C9_TraverseGetMirrorsRoute ==
  \A r \in Reqs :
    Traversed(r, "get") =>
      /\ Len(visits[r]) = 1
      /\ visits[r][1].to = rh_
      /\ visits[r][1].key =
           IF hostid % cnt[r] = 0
             THEN FullKey(r)
             ELSE SplitKeyOf(r, (hostid % cnt[r]) - 1)
      /\ \A g \in Reqs :
           Routed(g, "get") /\ req[g].key = req[r].key /\ cnt[g] = cnt[r]
           => AllCallKeys(g) = VisitKeys(r)

C9_Witness ==
  \E r, g \in Reqs :
    /\ Traversed(r, "get") /\ Routed(g, "get")
    /\ req[g].key = req[r].key /\ cnt[g] = cnt[r]
    /\ hostid % cnt[r] # 0
    /\ visits[r][1].key # FullKey(r)

\* C10: traverse() executes nothing: it makes no call of the child's
\* route(), adds no task and never suspends; it leaves only visitor calls
\* and the directory recorded in the request context.
C10_TraverseExecutesNothing ==
  \A r \in Reqs :
    op[r] = "traverse" =>
      /\ calls[r] = EmptyBag
      /\ TasksOf(r) = {}
      /\ pc[r] = "done"
      /\ got[r] = "none" /\ reply[r] = "none"
      /\ idx[r] = 0
      /\ Len(visits[r]) >= 1
      /\ ctx[r] \in {"absent", shardSplitter_}

C10_Witness ==
  \E r \in Reqs :
    /\ Traversed(r, "delete") /\ cnt[r] = MaxCnt
    /\ Len(visits[r]) = MaxCnt /\ ctx[r] = shardSplitter_


\* C11: every traverse(), of a request of any kind, records the node's
\* directory in the request context when there is one; traverse() never
\* leaves with a context in which the directory is not recorded.  Without a
\* context nothing is recorded and the visitor is called just as with one.
C11_TraverseRecordsSplitter ==
  /\ [](\A r \in Reqs :
          op[r] = "traverse" =>
            /\ ctx[r] \in {"absent", shardSplitter_}
            /\ Len(visits[r]) >= 1
            /\ \A q \in Reqs :
                 op[q] = "traverse" /\ req[q] = req[r] /\ cnt[q] = cnt[r]
                 => visits[q] = visits[r])
  /\ [][\A r \in Reqs :
          pc[r] = "idle" /\ op'[r] = "traverse" =>
            \A c \in {"present", "absent"} :
              (\E kind \in Kinds, k \in Keys : Traverse(r, kind, k, c)) =>
                ctx'[r] = IF c = "present" THEN shardSplitter_ ELSE "absent"]_vars

C11_Witness ==
  \E r, q \in Reqs :
    /\ Traversed(r, "other") /\ Traversed(q, "other")
    /\ req[q] = req[r]
    /\ ctx[r] = shardSplitter_ /\ ctx[q] = "absent"
    /\ visits[q] = visits[r] /\ lookups[r] = 0


\* C12: an added secondary-delete task is never cancelled: no step, the
\* return of route() and the end of the issuing context included, takes it
\* away or puts it back, and under a fair scheduler each added task makes
\* its child call in the end, also after route() has returned its reply.
C12_TasksOutliveRoute ==
  /\ [][\A t \in tasks :
          \E u \in tasks' :
            /\ u.req = t.req /\ u.off = t.off /\ u.key = t.key /\ u.to = t.to
            /\ t.st # "queued" => u.st # "queued"]_vars
  /\ \A r \in Reqs, i \in 0..MaxCnt :
       (\E t \in tasks : t.req = r /\ t.off = i)
         ~> (\E t \in tasks :
               /\ t.req = r /\ t.off = i /\ t.st # "queued"
               /\ CopiesIn([key |-> t.key, to |-> t.to, by |-> "task"],
                           calls[r]) = 1)

C12_Witness ==
  \E r \in Reqs :
    /\ Routed(r, "delete") /\ pc[r] = "done" /\ reply[r] = "error"
    /\ \E t, u \in TasksOf(r) : t.st = "queued" /\ u.st = "running"


\* the bytes of the key splitReq returned that lie between the copy of the
\* key up to the end of the shard region and the copy of the rest
InsertedSuffix(r) ==
  LET e == ShardEnd(ShardRegion(req[r].key))
  IN  SubSeq(derived[r].key.full, e + 1,
             e + Len(derived[r].key.full) - Len(FullKey(r)))

C14_SuffixInjective ==
  \A r, q \in Reqs :
    op[r] = "splitReq" /\ op[q] = "splitReq" /\ req[r] = req[q] =>
      /\ InsertedSuffix(r) = shardSplitSuffix(idx[r])
      /\ idx[r] # idx[q] =>
           /\ InsertedSuffix(r) # InsertedSuffix(q)
           /\ derived[r].key.full # derived[q].key.full
      /\ derived[r].key.full # FullKey(r)

C14_Witness ==
  \E r, q \in Reqs :
    /\ op[r] = "splitReq" /\ op[q] = "splitReq" /\ req[r] = req[q]
    /\ idx[r] = 0 /\ idx[q] = 26
    /\ InsertedSuffix(r) = <<"a">> /\ InsertedSuffix(q) = <<"a", "b">>


\* the key a request handled as a get goes to the child with
PickedKey(r) ==
  IF hostid % cnt[r] = 0 THEN FullKey(r) ELSE SplitKeyOf(r, (hostid % cnt[r]) - 1)

\* the request of r was handled as a get: one lookup, one forward or one
\* visit with the key picked for the host, no loop, no task
HandledAsGet(r) ==
  /\ lookups[r] = 1 /\ TasksOf(r) = {} /\ pc[r] # "loop"
  /\ op[r] = "route" => AllCallKeys(r) = {PickedKey(r)}
                        /\ BagCardinality(calls[r]) = 1
  /\ op[r] = "traverse" => VisitKeys(r) = {PickedKey(r)} /\ Len(visits[r]) = 1

\* the request of r was handled as a delete: one lookup, and the broadcast
\* over the cnt keys, one task per secondary key
HandledAsDelete(r) ==
  /\ lookups[r] = 1
  /\ op[r] = "route" =>
       /\ pc[r] = "loop" => Cardinality(TasksOf(r)) = idx[r]
       /\ Forwarded(r) =>
            /\ Cardinality(TasksOf(r)) = cnt[r] - 1
            /\ CallKeys(r, "route") = {FullKey(r)}
       /\ BroadcastIssued(r) =>
            AllCallKeys(r) = {FullKey(r)} \cup SecondaryKeys(r)
  /\ op[r] = "traverse" =>
       /\ Len(visits[r]) = cnt[r]
       /\ VisitKeys(r) = {FullKey(r)} \cup SecondaryKeys(r)

\* the request of r was handled as neither: no lookup, the unmodified
\* request to the child
HandledAsOther(r) ==
  /\ lookups[r] = 0 /\ splits[r] = 0 /\ TasksOf(r) = {} /\ pc[r] # "loop"
  /\ op[r] = "route" => AllCallKeys(r) = {FullKey(r)}
                        /\ BagCardinality(calls[r]) = 1
  /\ op[r] = "traverse" => VisitKeys(r) = {FullKey(r)} /\ Len(visits[r]) = 1

\* C15: route() and traverse() classify alike, get-like first, then
\* delete-like, then the rest: a request that is both get-like and
\* delete-like is handled as a get (one forward or one visit, no
\* broadcast), and a request that is not get-like is broadcast only if it
\* is delete-like.
C15_ClassificationPrecedence ==
  \A r \in Reqs :
    op[r] \in {"route", "traverse"} =>
      /\ req[r].kind \in {"get", "getdelete"} => HandledAsGet(r)
      /\ req[r].kind = "delete" => HandledAsDelete(r)
      /\ req[r].kind = "other" => HandledAsOther(r)

C15_Witness ==
  \E r \in Reqs :
    /\ op[r] = "traverse" /\ req[r].kind = "getdelete"
    /\ cnt[r] = 3 /\ hostid % 3 = 2
    /\ Len(visits[r]) = 1 /\ VisitKeys(r) = {SplitKeyOf(r, 1)}


\* C16: the split count is not cached: a call of route() or traverse() for
\* a get-like or delete-like request makes exactly one lookup, takes the
\* count the directory holds at that moment and uses it for all of that
\* call, so a request made after the directory has changed works with the
\* new count whatever the directory held before.
C16_CountLookedUpPerCall ==
  /\ [](\A r \in Reqs :
          /\ lookups[r] <= 1
          /\ (op[r] \in {"route", "traverse"}
              /\ req[r].kind \in {"get", "delete"}) =>
               /\ lookups[r] = 1
               /\ cnt[r] \in Cnts
          /\ Routed(r, "get") => AllCallKeys(r) = {PickedKey(r)}
          /\ Traversed(r, "get") => VisitKeys(r) = {PickedKey(r)}
          /\ (Routed(r, "delete") /\ Forwarded(r)) =>
               Cardinality(TasksOf(r)) = cnt[r] - 1
          /\ Traversed(r, "delete") => Len(visits[r]) = cnt[r])
  /\ [][\A r \in Reqs :
          IF lookups'[r] # lookups[r]
            THEN lookups'[r] = lookups[r] + 1 /\ cnt'[r] = dirCnt
            ELSE cnt'[r] = cnt[r]]_vars

C16_Witness ==
  \E r, q \in Reqs :
    /\ Routed(r, "delete") /\ pc[r] = "done" /\ cnt[r] = 1
    /\ BagCardinality(calls[r]) = 1
    /\ Routed(q, "delete") /\ Forwarded(q) /\ cnt[q] = 3 /\ dirCnt = 2
    /\ Cardinality(TasksOf(q)) = 2

\* a step leaves as it was all that the call of route() or traverse() for
\* r holds: its locals, the tasks it has added, what it has produced
Untouched(r) ==
  /\ pc'[r] = pc[r] /\ idx'[r] = idx[r] /\ calls'[r] = calls[r]
  /\ \/ tasks' = tasks
     \/ \A t \in (tasks' \ tasks) \cup (tasks \ tasks') : t.req # r
  /\ req'[r] = req[r] /\ op'[r] = op[r] /\ cnt'[r] = cnt[r]
  /\ shard'[r] = shard[r] /\ lookups'[r] = lookups[r]
  /\ splits'[r] = splits[r] /\ visits'[r] = visits[r] /\ got'[r] = got[r]
  /\ reply'[r] = reply[r] /\ ctx'[r] = ctx[r]

\* route() of r has returned and every task it added has ended
Completed(r) == pc[r] = "done" /\ \A t \in tasks : t.req = r => t.st = "ended"

\* the keys the request of r goes to the child or the visitor with when it
\* is the only request, given the count its lookup found
AloneKeys(r) ==
  IF req[r].kind = "other" THEN {FullKey(r)}
  ELSE IF req[r].kind = "get" THEN {PickedKey(r)}
  ELSE {FullKey(r)} \cup SecondaryKeys(r)

\* C17: route() and traverse() are reentrant: the route's members rh_ and
\* shardSplitter_ never change, a step of one request leaves everything
\* of every other request as it was, and under any interleaving a request
\* gets the forwards, the visits and the reply it gets alone.
C17_Reentrant ==
  /\ [](/\ rh_ = "child" /\ shardSplitter_ = "splitter"
        /\ \A r \in Reqs :
             /\ (op[r] = "route" /\ Completed(r)) =>
                  /\ AllCallKeys(r) = AloneKeys(r)
                  /\ BagCardinality(calls[r]) = Cardinality(AloneKeys(r))
                  /\ \A c \in BagToSet(calls[r]) : c.to = rh_
                  /\ reply[r] = got[r]
             /\ op[r] = "traverse" =>
                  /\ VisitKeys(r) = AloneKeys(r)
                  /\ Len(visits[r]) = Cardinality(AloneKeys(r))
                  /\ calls[r] = EmptyBag)
  /\ [][\E r \in Reqs : \A q \in Reqs \ {r} : Untouched(q)]_vars

C17_Witness ==
  \E r, q \in Reqs :
    /\ r # q
    /\ Routed(r, "delete") /\ pc[r] = "done" /\ cnt[r] = 3
    /\ \E t \in TasksOf(r) : t.st = "running"
    /\ \E t \in TasksOf(r) : t.st = "queued"
    /\ Routed(q, "delete") /\ pc[q] = "loop" /\ idx[q] = 1 /\ cnt[q] = 2


\* C18: rewriting the key never changes the request of the caller: every
\* split key is set in a clone, so the request the caller gave keeps its
\* key through the whole call, and the primary forward of a delete, made
\* after all cnt - 1 secondary requests have been derived, carries the
\* key unmodified.
C18_CallerRequestUnmodified ==
  /\ [](\A r \in Reqs :
          /\ op[r] \in {"route", "traverse"} => req[r].key \in Keys
          /\ (Routed(r, "delete") /\ Forwarded(r)) =>
               /\ splits[r] = cnt[r] - 1
               /\ Cardinality(TasksOf(r)) = cnt[r] - 1
               /\ CallKeys(r, "route") = {FullKey(r)}
               /\ \A t \in TasksOf(r) : t.key # FullKey(r)
          /\ Traversed(r, "delete") =>
               /\ visits[r][1].key = FullKey(r)
               /\ \A n \in 2..Len(visits[r]) : visits[r][n].key # FullKey(r))
  /\ [][\A r \in Reqs : pc[r] # "idle" => req'[r] = req[r]]_vars

C18_Witness ==
  \E r \in Reqs :
    /\ Routed(r, "delete") /\ pc[r] = "awaiting" /\ cnt[r] = 3
    /\ splits[r] = 2 /\ Cardinality(TasksOf(r)) = 2
    /\ req[r].key \in Keys
    /\ CallKeys(r, "route") = {FullKey(r)}


\* C19: in route() for a delete with cnt > 1, all the cnt - 1 secondary
\* forwards are handed to the fiber manager before the primary forward is
\* made: while the loop runs the child has not been called with the
\* request, the step that calls it finds the cnt - 1 tasks added, and
\* the request has these cnt - 1 tasks, for the count it looked up, in
\* every state afterwards, whatever the primary forward's reply is.
C19_SecondariesSubmittedFirst ==
  /\ [](\A r \in Reqs :
          Routed(r, "delete") =>
            /\ pc[r] = "loop" => calls[r] = EmptyBag
            /\ CallKeys(r, "route") # {} => Forwarded(r)
            /\ Forwarded(r) =>
                 /\ {t.off : t \in TasksOf(r)} = 0..(cnt[r] - 2)
                 /\ Cardinality(TasksOf(r)) = cnt[r] - 1)
  /\ [][\A r \in Reqs :
          /\ (pc[r] = "loop" /\ pc'[r] # "loop") =>
               /\ Cardinality(TasksOf(r)) = cnt[r] - 1
               /\ tasks' = tasks
               /\ CallKeys(r, "route")' = {FullKey(r)}
          /\ Forwarded(r) => cnt'[r] = cnt[r]]_vars

C19_Witness ==
  \E r \in Reqs :
    /\ Routed(r, "delete") /\ cnt[r] = 3
    /\ pc[r] = "done" /\ reply[r] = "error"
    /\ Cardinality(TasksOf(r)) = 2
    /\ \A t \in TasksOf(r) : t.st = "queued"


\* the offsets createSplitKey may be given for a count of c
Offsets(c) == 0..(c - 2)

\* the one request a get of r sends or shows has the unmodified key, made
\* without createSplitKey, when the host's split is 0, and otherwise the
\* key of the offset one below the host's split, which did not wrap
GetOffsetInRange(r, keys) ==
  LET i == hostid % cnt[r]
  IN  IF i = 0
        THEN keys = {FullKey(r)} /\ splits[r] = 0
        ELSE /\ SizeSub(i, 1) \in Offsets(cnt[r])
             /\ keys = {SplitKeyOf(r, SizeSub(i, 1))}
             /\ splits[r] = 1

\* C20: with a count of at least 1 and any host id, every offset route()
\* or traverse() gives createSplitKey is in 0..cnt-2; (hostid mod cnt) - 1
\* and cnt - 1 do not wrap below zero; and split 0 is the unmodified key,
\* made without createSplitKey.
C20_OffsetsInRange ==
  \A r \in Reqs :
    (op[r] \in {"route", "traverse"} /\ lookups[r] = 1) =>
      /\ cnt[r] >= 1
      /\ SizeSub(cnt[r], 1) >= 0
      /\ splits[r] <= cnt[r] - 1
      /\ Routed(r, "get") => GetOffsetInRange(r, AllCallKeys(r))
      /\ Traversed(r, "get") => GetOffsetInRange(r, VisitKeys(r))
      /\ Routed(r, "delete") =>
           /\ idx[r] <= SizeSub(cnt[r], 1)
           /\ splits[r] = Cardinality(TasksOf(r))
           /\ \A t \in TasksOf(r) :
                t.off \in Offsets(cnt[r]) /\ t.key = SplitKeyOf(r, t.off)
           /\ CallKeys(r, "route") \subseteq {FullKey(r)}
      /\ Traversed(r, "delete") =>
           /\ splits[r] = SizeSub(cnt[r], 1)
           /\ visits[r][1].key = FullKey(r)
           /\ \A n \in 2..Len(visits[r]) :
                /\ n - 2 \in Offsets(cnt[r])
                /\ visits[r][n].key = SplitKeyOf(r, n - 2)

C20_Witness ==
  \E r, q \in Reqs :
    /\ Routed(r, "delete") /\ cnt[r] = 3 /\ Forwarded(r)
    /\ {t.off : t \in TasksOf(r)} = {0, 1} /\ splits[r] = 2
    /\ Routed(q, "get") /\ cnt[q] = 3 /\ hostid = 2
    /\ AllCallKeys(q) = {SplitKeyOf(q, 1)} /\ splits[q] = 1

====
